---------------------------- MODULE Spec2Model ----------------------------
(***************************************************************************)
(* Analysis hooks of utils/analysis.py: the epoch/phase hooks of the six   *)
(* analysis classes, hard routing (DecisionTreePrior) and soft routing     *)
(* (DecisionTreeBayesianPrior) over a label hierarchy.                     *)
(*                                                                         *)
(* Python lists are functions over 0..len-1, so that list positions, child *)
(* indices and class indices are the 0-based numbers of the source.        *)
(***************************************************************************)
EXTENDS Integers, Sequences, FiniteSets, TLC

VARIABLES
    kind,       \* the analysis class of the object
    H,          \* the hierarchy / dataset the object was constructed over
    epoch,      \* self.epoch
    correct,    \* self.correct
    total,      \* self.total
    m,          \* ConfusionMatrix: self.m
    ms,         \* ConfusionMatrixJointNodes: self.ms
    ignored,    \* IgnoredSamples: self.ignored
    last,       \* history: the last call made on the object, with its epoch argument
    raised,     \* history: the exception the last call ended with, or "none"
    printed,    \* history: the figures the last call printed, <<>> if none
    fed,        \* history: sum of the sizes of the batches given to update_batch
    pc,         \* position inside update_batch: "idle", "while", "nodes", "done"
    targets,    \* update_batch's argument: targets[s]
    wnid_to_pred_selector,  \* local of DecisionTreePrior.update_batch
    node_argmax,\* history: node_argmax[n][s], the argmax of sample s's scores at node n
    index,      \* traverse_tree: the for-loop variable
    wnid,       \* traverse_tree: current identifier
    node,       \* traverse_tree: current node (its wnid) or None
    preds,      \* traverse_tree: the list being built
    steps,      \* history: child transitions made for the current sample
    outputs,    \* soft routing: update_batch's argument outputs[s][c], in units of 2 ln 2
    wnid_to_output,  \* local of DecisionTreeBayesianPrior.update_batch
    class_probs,\* soft traverse_tree: class_probs[s][c], a fraction
    position,   \* soft traverse_tree: position of the loop in self.nodes
    visits      \* history: visits[n], how often the loop body ran for node n

objVars  == <<kind, H>>
hookVars == <<epoch, m, ms, ignored, last, raised, printed>>
cntVars  == <<correct, total, fed>>
hardVars == <<wnid_to_pred_selector, node_argmax, index, wnid, node, steps>>
softVars == <<outputs, wnid_to_output, class_probs, position, visits>>

vars == <<kind, H, epoch, correct, total, m, ms, ignored, last, raised, printed, fed,
          pc, targets, wnid_to_pred_selector, node_argmax, index, wnid, node, preds,
          steps, outputs, wnid_to_output, class_probs, position, visits>>

----------------------------------------------------------------------------
(* Bounds *)

MaxBatch == 3       \* largest batch size given to update_batch
MaxScores == 9      \* largest number of raw scores (samples x classes) in a batch
MaxTotal == 3       \* update_batch is not called once total would exceed this
MaxEpoch == 1       \* the epochs the driver runs are 0..MaxEpoch

Scores == {0, 1}    \* raw scores of a batch, in units of 2 ln 2

----------------------------------------------------------------------------
(* Python values *)

None == "None"

List(s) == [i \in 0..(Len(s) - 1) |-> s[i + 1]]

len(l) == Cardinality(DOMAIN l)

Empty == [i \in {} |-> 0]

append(l, x) == [i \in 0..len(l) |-> IF i < len(l) THEN l[i] ELSE x]

\* list.index(x): the first position holding x
ListIndex(l, x) == CHOOSE i \in DOMAIN l : l[i] = x /\ \A j \in DOMAIN l : l[j] = x => i <= j

RECURSIVE SumOver(_, _)
SumOver(f, S) ==
    IF S = {} THEN 0
    ELSE LET x == CHOOSE y \in S : TRUE IN f[x] + SumOver(f, S \ {x})

----------------------------------------------------------------------------
(* Hierarchies: the graph G (successor lists), the order of self.nodes,    *)
(* the label list and the dataset's class names.                           *)

\* one node over two classes
Pair ==
    [succ    |-> [n0 |-> List(<<"w0", "w1">>),
                  w0 |-> Empty, w1 |-> Empty],
     nodes   |-> List(<<"n0">>),
     wnids   |-> List(<<"w0", "w1">>),
     classes |-> List(<<"cat", "dog">>)]

\* one node over three classes, children in label order
Flat ==
    [succ    |-> [n0 |-> List(<<"w0", "w1", "w2">>),
                  w0 |-> Empty, w1 |-> Empty, w2 |-> Empty],
     nodes   |-> List(<<"n0">>),
     wnids   |-> List(<<"w0", "w1", "w2">>),
     classes |-> List(<<"cat", "dog", "owl">>)]

\* root with two groups of two classes
Balanced ==
    [succ    |-> [n0 |-> List(<<"n1", "n2">>),
                  n1 |-> List(<<"w0", "w1">>),
                  n2 |-> List(<<"w2", "w3">>),
                  w0 |-> Empty, w1 |-> Empty, w2 |-> Empty, w3 |-> Empty],
     nodes   |-> List(<<"n0", "n1", "n2">>),
     wnids   |-> List(<<"w0", "w1", "w2", "w3">>),
     classes |-> List(<<"cat", "dog", "owl", "emu">>)]

\* root with a group and a class; the label list is not in tree order
Skewed ==
    [succ    |-> [n0 |-> List(<<"n1", "w1">>),
                  n1 |-> List(<<"w2", "w0">>),
                  w0 |-> Empty, w1 |-> Empty, w2 |-> Empty],
     nodes   |-> List(<<"n1", "n0">>),
     wnids   |-> List(<<"w0", "w1", "w2">>),
     classes |-> List(<<"cat", "dog", "owl">>)]

\* three levels
Chain ==
    [succ    |-> [n0 |-> List(<<"w0", "n1">>),
                  n1 |-> List(<<"n2", "w1">>),
                  n2 |-> List(<<"w3", "w2">>),
                  w0 |-> Empty, w1 |-> Empty, w2 |-> Empty, w3 |-> Empty],
     nodes   |-> List(<<"n0", "n1", "n2">>),
     wnids   |-> List(<<"w0", "w1", "w2", "w3">>),
     classes |-> List(<<"cat", "dog", "owl", "emu">>)]

Hierarchies == {Pair, Flat, Balanced, Skewed, Chain}

HardHierarchies == {Flat, Balanced, Skewed, Chain}

\* group sizes 1 and 2 only: the exponential of a group mean is a power of two
SoftHierarchies == {Flat, Balanced, Skewed}

----------------------------------------------------------------------------
(* utils.graph and utils.data.custom.Node, read-only collaborators *)

Wnids(h) == DOMAIN h.succ

range(l) == {l[i] : i \in DOMAIN l}

\* get_root: the identifier without incoming edge
Roots == [h \in Hierarchies |->
    CHOOSE r \in Wnids(h) : \A w \in Wnids(h) : r \notin range(h.succ[w])]

get_root(h) == Roots[h]

\* Node.get_nodes: one Node per identifier that has children
NodeWnids(h) == range(h.nodes)

\* node.children
children(h, n) == h.succ[n]

\* node.num_classes
num_classes(h, n) == len(children(h, n))

RECURSIVE get_leaves(_, _)
get_leaves(h, w) ==
    IF len(h.succ[w]) = 0 THEN {w}
    ELSE UNION {get_leaves(h, h.succ[w][i]) : i \in DOMAIN h.succ[w]}

\* Node.build_class_mappings, for every node of every hierarchy
NewToOld == [h \in Hierarchies |-> [n \in NodeWnids(h) |->
    [g \in DOMAIN children(h, n) |->
        {ListIndex(h.wnids, leaf) : leaf \in get_leaves(h, children(h, n)[g])}]]]

\* node.new_to_old_classes[g]: the original classes below child g
new_to_old_classes(h, n) == NewToOld[h][n]

\* node.old_to_new_classes[c]: the children that own original class c
old_to_new_classes(h, n) ==
    [c \in DOMAIN h.classes |->
        {g \in DOMAIN children(h, n) : c \in new_to_old_classes(h, n)[g]}]

----------------------------------------------------------------------------
(* DecisionTreePrior.__init__ *)

\* self.wnid_to_node: the identifiers that have a Node
wnid_to_node(h) == NodeWnids(h)

\* line 175, for every hierarchy: dict(zip(wnids, classes))
WnidToClass == [h \in Hierarchies |->
    [w \in {h.wnids[i] : i \in DOMAIN h.wnids \cap DOMAIN h.classes} |->
        h.classes[ListIndex(h.wnids, w)]]]

\* self.wnid_to_class
wnid_to_class(h) == WnidToClass[h]

----------------------------------------------------------------------------
(* Node-local scores: the mean of the raw scores of each child group       *)
(* (TreeSup.get_output_sub; the same expression in lines 274-277)          *)

\* mean of a sample's raw scores over a group, as the pair (sum, size)
GroupMean(row, group) == [sum |-> SumOver(row, group), size |-> Cardinality(group)]

MeanLess(a, b) == a.sum * b.size < b.sum * a.size

\* node-local scores of one sample: one mean per child group
get_output_sub(h, n, row) ==
    [g \in 0..(num_classes(h, n) - 1) |-> GroupMean(row, new_to_old_classes(h, n)[g])]

----------------------------------------------------------------------------
(* models.trees.TreeSup.inference *)

\* selector[i]: sample i's target is owned by a child group of the node
inference_selector(h, n, targs) ==
    [i \in DOMAIN targs |-> old_to_new_classes(h, n)[targs[i]] # {}]

\* the batch positions the selector keeps
Selected(selector) == {i \in DOMAIN selector : selector[i]}

\* position of batch index i among the selected ones
Rank(selector, i) == Cardinality({j \in Selected(selector) : j <= i}) - 1

\* outputs[selector], then the per-group means: one row per selected sample,
\* in batch order
inference_outputs_sub(h, n, outs, selector) ==
    [k \in 0..(Cardinality(Selected(selector)) - 1) |->
        LET i == CHOOSE j \in Selected(selector) : Rank(selector, j) = k
        IN  get_output_sub(h, n, outs[i])]

----------------------------------------------------------------------------
(* DecisionTreePrior.update_batch, lines 183-191 *)

\* torch.max(row)[1]: the first maximal position
argmax_mean(row) ==
    CHOOSE g \in DOMAIN row :
        /\ \A k \in DOMAIN row : ~MeanLess(row[g], row[k])
        /\ \A k \in DOMAIN row : k < g => MeanLess(row[k], row[g])

any(selector) == \E i \in DOMAIN selector : selector[i]

\* lines 189-190: preds_sub, one argmax per row of outputs_sub
preds_sub_of(outputs_sub) == [k \in DOMAIN outputs_sub |-> argmax_mean(outputs_sub[k])]

\* the dictionary with the predictions of every sample of the batch, selected or not
build_pred_selector_unfiltered(h, outs, targs) ==
    LET kept == {n \in NodeWnids(h) : any(inference_selector(h, n, targs))}
    IN  [n \in kept |->
            [preds_sub |-> [s \in DOMAIN outs |-> argmax_mean(get_output_sub(h, n, outs[s]))],
             selector  |-> inference_selector(h, n, targs)]]

\* lines 184-191: the dictionary built by the loop over self.nodes
build_pred_selector(h, outs, targs) ==
    LET kept == {n \in NodeWnids(h) : any(inference_selector(h, n, targs))}
    IN  [n \in kept |->
            LET selector == inference_selector(h, n, targs)
            IN  [preds_sub |-> preds_sub_of(inference_outputs_sub(h, n, outs, selector)),
                 selector  |-> selector]]

\* the argmax of every sample's node-local scores at every node
all_node_argmax(h, outs) ==
    [n \in NodeWnids(h) |-> [s \in DOMAIN outs |-> argmax_mean(get_output_sub(h, n, outs[s]))]]

----------------------------------------------------------------------------
(* DecisionTreePrior.traverse_tree *)

\* the first local prediction, whatever the sample
index_new_first(selector, i) == 0

\* line 215: index_new = sum(selector[:index + 1]) - 1
index_new_of(selector, i) ==
    SumOver([j \in 0..i |-> IF selector[j] THEN 1 ELSE 0], 0..i) - 1

\* the loop body without the selector test; a negative position counts from the
\* end of the list
while_body_unchecked(h, w2ps, i, n) ==
    IF n \notin DOMAIN w2ps THEN [wnid |-> None, node |-> None]
    ELSE LET index_new   == index_new_of(w2ps[n].selector, i)
             index_child == w2ps[n].preds_sub[index_new % len(w2ps[n].preds_sub)]
             child       == children(h, n)[index_child]
         IN  [wnid |-> child,
              node |-> IF child \in wnid_to_node(h) THEN child ELSE None]

\* the loop body looking the next node up under the current node's identifier
while_body_same_node(h, w2ps, i, n) ==
    IF n \notin DOMAIN w2ps THEN [wnid |-> None, node |-> None]
    ELSE IF ~w2ps[n].selector[i] THEN [wnid |-> None, node |-> None]
    ELSE LET index_child == w2ps[n].preds_sub[index_new_of(w2ps[n].selector, i)]
             child       == children(h, n)[index_child]
         IN  [wnid |-> child,
              node |-> IF n \in wnid_to_node(h) THEN n ELSE None]

\* lines 208-218: one iteration of the while loop, from a node that is not None
while_body(h, w2ps, i, n) ==
    IF n \notin DOMAIN w2ps THEN [wnid |-> None, node |-> None]
    ELSE IF ~w2ps[n].selector[i] THEN [wnid |-> None, node |-> None]
    ELSE LET index_child == w2ps[n].preds_sub[index_new_of(w2ps[n].selector, i)]
             child       == children(h, n)[index_child]
         IN  [wnid |-> child,
              node |-> IF child \in wnid_to_node(h) THEN child ELSE None]

\* the number of classes as the answer for an identifier without class
leaf_pred_count(h, w) ==
    IF w \notin DOMAIN wnid_to_class(h) THEN len(h.classes)
    ELSE ListIndex(h.classes, wnid_to_class(h)[w])

\* lines 219-220: the class index of the identifier the walk ended at, or -1
leaf_pred(h, w) ==
    IF w \notin DOMAIN wnid_to_class(h) THEN -1
    ELSE ListIndex(h.classes, wnid_to_class(h)[w])

\* lines 206-218 for one sample: the identifier the while loop ends at
RECURSIVE walk(_, _, _, _, _)
walk(h, w2ps, i, w, n) ==
    IF n = None THEN w
    ELSE LET next == while_body(h, w2ps, i, n)
         IN  walk(h, w2ps, i, next.wnid, next.node)

\* lines 201-222 as a whole
traverse_tree(h, w2ps, n_samples) ==
    [i \in 0..(n_samples - 1) |-> leaf_pred(h, walk(h, w2ps, i, get_root(h), get_root(h)))]

\* counting the unresolved samples as well
count_equal_or_unresolved(predicted, targs) ==
    Cardinality({i \in DOMAIN targs : predicted[i] = targs[i] \/ predicted[i] = 0 - 1})

\* (predicted == targets).sum()
count_equal(predicted, targs) ==
    Cardinality({i \in DOMAIN targs : predicted[i] = targs[i]})

----------------------------------------------------------------------------
(* DecisionTreeBayesianPrior: fractions, softmax, the product *)

Frac(a, b) == [num |-> a, den |-> b]

One == Frac(1, 1)

FracMul(a, b) == Frac(a.num * b.num, a.den * b.den)

FracEq(a, b) == a.num * b.den = b.num * a.den

FracLess(a, b) == a.num * b.den < b.num * a.den

\* exp of a group mean; the raw scores are multiples of 2 ln 2 and the groups
\* have one or two members, so this is 2^(2 * sum / size)
Exp(mean) == 2 ^ ((2 * mean.sum) \div mean.size)

\* nn.Softmax(dim=1) on one row
softmax(row) ==
    LET e == [g \in DOMAIN row |-> Exp(row[g])]
    IN  [g \in DOMAIN row |-> Frac(e[g], SumOver(e, DOMAIN row))]

\* lines 272-278: wnid_to_output[n][s][g]
build_output(h, outs) ==
    [n \in NodeWnids(h) |-> [s \in DOMAIN outs |-> get_output_sub(h, n, outs[s])]]

\* line 289: np.ones((n_samples, len(self.classes)))
ones(h, n_samples) == [s \in 0..(n_samples - 1) |-> [c \in DOMAIN h.classes |-> One]]

\* the loop over index_child scaling every class, owned by the child or not
RECURSIVE scale_children_all(_, _, _, _, _)
scale_children_all(h, n, output, probs, g) ==
    IF g >= len(children(h, n)) THEN probs
    ELSE LET scaled == [s \in DOMAIN probs |-> [c \in DOMAIN probs[s] |->
                          FracMul(probs[s][c], output[s][g])]]
         IN  scale_children_all(h, n, output, scaled, g + 1)

\* lines 293-295: the loop over index_child, from child g on
RECURSIVE scale_children(_, _, _, _, _)
scale_children(h, n, output, probs, g) ==
    IF g >= len(children(h, n)) THEN probs
    ELSE LET old_indexes == new_to_old_classes(h, n)[g]
             scaled == [s \in DOMAIN probs |-> [c \in DOMAIN probs[s] |->
                          IF c \in old_indexes
                          THEN FracMul(probs[s][c], output[s][g])
                          ELSE probs[s][c]]]
         IN  scale_children(h, n, output, scaled, g + 1)

\* lines 291-295: the body of the loop over self.nodes
scale_node(h, n, w2o, probs) ==
    LET output == [s \in DOMAIN probs |-> softmax(w2o[n][s])]
    IN  scale_children(h, n, output, probs, 0)

\* the last maximal position
argmax_frac_last(row) ==
    CHOOSE c \in DOMAIN row :
        /\ \A k \in DOMAIN row : ~FracLess(row[c], row[k])
        /\ \A k \in DOMAIN row : k > c => FracLess(row[k], row[c])

\* np.argmax on one row: the first maximal position
argmax_frac(row) ==
    CHOOSE c \in DOMAIN row :
        /\ \A k \in DOMAIN row : ~FracLess(row[c], row[k])
        /\ \A k \in DOMAIN row : k < c => FracLess(row[k], row[c])

\* lines 290-295 over the nodes order[k..]
RECURSIVE scale_nodes(_, _, _, _, _)
scale_nodes(h, order, w2o, probs, k) ==
    IF k >= len(order) THEN probs
    ELSE scale_nodes(h, order, w2o, scale_node(h, order[k], w2o, probs), k + 1)

\* lines 288-297 as a whole
bayes_traverse_tree(h, w2o, n_samples) ==
    LET probs == scale_nodes(h, h.nodes, w2o, ones(h, n_samples), 0)
    IN  [s \in 0..(n_samples - 1) |-> argmax_frac(probs[s])]

----------------------------------------------------------------------------
(* Batches *)

\* the batch sizes the driver uses on hierarchy h
BatchSizes(h) == {n \in 1..MaxBatch : n * len(h.classes) <= MaxScores}

Batches(h, n) ==
    [outputs : [0..(n - 1) -> [DOMAIN h.classes -> Scores]],
     targets : [0..(n - 1) -> DOMAIN h.classes]]

----------------------------------------------------------------------------
(* Construction *)

NoneInt == 0 - 1    \* None in a field that later holds a number
Unset   == 0 - 2    \* an attribute the constructor did not create

\* Noop.__init__ and the subclasses': the fields right after construction
Constructed(k, h) ==
    /\ kind = k
    /\ H = h
    /\ epoch = IF k = "ConfusionMatrixJointNodes" THEN Unset ELSE NoneInt
    /\ correct = 0
    /\ total = 0
    /\ m = Empty
    /\ ms = Empty
    /\ ignored = NoneInt
    /\ last = [hook |-> "__init__", arg |-> NoneInt]
    /\ raised = "none"
    /\ printed = <<>>
    /\ fed = 0
    /\ pc = "idle"
    /\ targets = Empty
    /\ wnid_to_pred_selector = Empty
    /\ node_argmax = Empty
    /\ index = 0
    /\ wnid = None
    /\ node = None
    /\ preds = Empty
    /\ steps = 0
    /\ outputs = Empty
    /\ wnid_to_output = Empty
    /\ class_probs = Empty
    /\ position = 0
    /\ visits = Empty

----------------------------------------------------------------------------
(* The hooks of the six classes, each call as one step.  A call that raises  *)
(* leaves the object as it was when the exception left the method; the      *)
(* object stays usable, so later calls are modelled as well.                *)

Kinds == {"Noop", "ConfusionMatrix", "ConfusionMatrixJointNodes", "IgnoredSamples",
          "DecisionTreePrior", "DecisionTreeBayesianPrior"}

TreeKinds == {"DecisionTreePrior", "DecisionTreeBayesianPrior"}

MatrixKinds == {"ConfusionMatrix", "ConfusionMatrixJointNodes"}

Epochs == 0..MaxEpoch

\* lines 37, 43, 46, 49, 52: assert epoch == self.epoch
Noop_assert(e) ==
    IF epoch = Unset THEN "AttributeError"
    ELSE IF e # epoch THEN "AssertionError"
    ELSE "none"

\* np.zeros((k, k))
zeros(k) == [i \in 0..(k - 1) |-> [j \in 0..(k - 1) |-> 0]]

\* ConfusionMatrix.update, from pair i on
RECURSIVE update(_, _, _, _)
update(matrix, predicted, labels, i) ==
    IF i >= len(predicted) \/ i >= len(labels) THEN matrix
    ELSE update([matrix EXCEPT ![labels[i]][predicted[i]] = @ + 1], predicted, labels, i + 1)

\* the exception start_train ends with
start_train_raises(e) ==
    IF Noop_assert(e) # "none" THEN Noop_assert(e)
    ELSE IF kind \in MatrixKinds THEN "NotImplementedError"
    ELSE "none"

\* the exception start_test ends with
start_test_raises(e) ==
    IF kind = "ConfusionMatrixJointNodes" THEN "none" ELSE Noop_assert(e)

\* the exception end_test ends with
end_test_raises(e) ==
    CASE kind = "ConfusionMatrixJointNodes" ->
            IF ms = Empty THEN "AttributeError" ELSE "none"
      [] kind = "DecisionTreeBayesianPrior" ->
            IF total = 0 THEN "ZeroDivisionError" ELSE "none"
      [] kind = "DecisionTreePrior" ->
            IF Noop_assert(e) # "none" THEN Noop_assert(e)
            ELSE IF total = 0 THEN "ZeroDivisionError" ELSE "none"
      [] kind = "ConfusionMatrix" ->
            IF Noop_assert(e) # "none" THEN Noop_assert(e)
            ELSE IF m = Empty THEN "AttributeError" ELSE "none"
      [] OTHER -> Noop_assert(e)

\* what end_test prints when it raises nothing
end_test_prints ==
    CASE kind = "ConfusionMatrixJointNodes" -> <<ms>>
      [] kind = "ConfusionMatrix" -> <<m>>
      [] kind = "IgnoredSamples" -> <<ignored>>
      [] kind \in TreeKinds -> <<correct, total>>
      [] OTHER -> <<>>

InitHooks == \E k \in Kinds : Constructed(k, Pair)

called(hook, e, exception, figures) ==
    /\ last' = [hook |-> hook, arg |-> e]
    /\ raised' = exception
    /\ printed' = figures

\* Noop.start_epoch, inherited by every class
start_epoch ==
    /\ pc = "idle"
    /\ \E e \in Epochs :
        /\ epoch' = e
        /\ called("start_epoch", e, "none", <<>>)
    /\ UNCHANGED <<objVars, cntVars, hardVars, softVars, pc, targets, preds, m, ms, ignored>>

\* Noop.start_train, ConfusionMatrix.start_train
start_train ==
    /\ pc = "idle"
    /\ \E e \in Epochs : called("start_train", e, start_train_raises(e), <<>>)
    /\ UNCHANGED <<objVars, cntVars, hardVars, softVars, pc, targets, preds,
                   epoch, m, ms, ignored>>

\* Noop.end_train, inherited by every class
end_train ==
    /\ pc = "idle"
    /\ \E e \in Epochs : called("end_train", e, Noop_assert(e), <<>>)
    /\ UNCHANGED <<objVars, cntVars, hardVars, softVars, pc, targets, preds,
                   epoch, m, ms, ignored>>

\* start_test of Noop, ConfusionMatrix, ConfusionMatrixJointNodes, IgnoredSamples
start_test ==
    /\ pc = "idle"
    /\ \E e \in Epochs :
        /\ called("start_test", e, start_test_raises(e), <<>>)
        /\ m' = IF kind = "ConfusionMatrix" /\ start_test_raises(e) = "none"
                THEN zeros(len(H.classes)) ELSE m
        /\ ms' = IF kind = "ConfusionMatrixJointNodes"
                 THEN [i \in DOMAIN H.nodes |-> zeros(num_classes(H, H.nodes[i]))] ELSE ms
        /\ ignored' = IF kind = "IgnoredSamples" /\ start_test_raises(e) = "none"
                      THEN 0 ELSE ignored
    /\ UNCHANGED <<objVars, cntVars, hardVars, softVars, pc, targets, preds, epoch>>

\* end_test of every class
end_test ==
    /\ pc = "idle"
    /\ \E e \in Epochs :
        called("end_test", e, end_test_raises(e),
               IF end_test_raises(e) = "none" THEN end_test_prints ELSE <<>>)
    /\ UNCHANGED <<objVars, cntVars, hardVars, softVars, pc, targets, preds,
                   epoch, m, ms, ignored>>

\* Noop.end_epoch, inherited by every class
end_epoch ==
    /\ pc = "idle"
    /\ \E e \in Epochs : called("end_epoch", e, Noop_assert(e), <<>>)
    /\ UNCHANGED <<objVars, cntVars, hardVars, softVars, pc, targets, preds,
                   epoch, m, ms, ignored>>

\* Noop.update_batch
Noop_update_batch ==
    /\ pc = "idle"
    /\ kind = "Noop"
    /\ fed + 1 <= MaxTotal
    /\ fed' = fed + 1
    /\ called("update_batch", NoneInt, "none", <<>>)
    /\ UNCHANGED <<objVars, correct, total, hardVars, softVars, pc, targets, preds,
                   epoch, m, ms, ignored>>

\* ConfusionMatrix.update_batch; flat: len(predicted.shape) == 1
ConfusionMatrix_update_batch ==
    /\ pc = "idle"
    /\ kind = "ConfusionMatrix"
    /\ \E n \in 1..MaxBatch : \E flat \in BOOLEAN :
       \E predicted \in [0..(n - 1) -> DOMAIN H.classes] :
       \E labels \in [0..(n - 1) -> DOMAIN H.classes] :
        /\ fed + n <= MaxTotal
        /\ fed' = fed + n
        /\ IF ~flat
           THEN /\ called("update_batch", NoneInt, "none", <<>>)
                /\ m' = m
           ELSE IF m = Empty
           THEN /\ called("update_batch", NoneInt, "TypeError", <<>>)
                /\ m' = m
           ELSE /\ called("update_batch", NoneInt, "none", <<>>)
                /\ m' = update(m, predicted, labels, 0)
    /\ UNCHANGED <<objVars, correct, total, hardVars, softVars, pc, targets, preds,
                   epoch, ms, ignored>>

\* the widest node
Fanout(h) == CHOOSE k \in {num_classes(h, n) : n \in NodeWnids(h)} :
                \A n \in NodeWnids(h) : num_classes(h, n) <= k

\* per node, one node-local label per sample: the columns of a joint-node batch
Columns(h, n) ==
    {cols \in [DOMAIN h.nodes -> [0..(n - 1) -> 0..(Fanout(h) - 1)]] :
        \A i \in DOMAIN h.nodes : \A s \in 0..(n - 1) :
            cols[i][s] < num_classes(h, h.nodes[i])}

\* ConfusionMatrixJointNodes.update_batch
ConfusionMatrixJointNodes_update_batch ==
    /\ pc = "idle"
    /\ kind = "ConfusionMatrixJointNodes"
    /\ \E n \in 1..MaxBatch : \E predicted \in Columns(H, n) : \E labels \in Columns(H, n) :
        /\ fed + n <= MaxTotal
        /\ fed' = fed + n
        /\ IF ms = Empty
           THEN /\ called("update_batch", NoneInt, "AttributeError", <<>>)
                /\ ms' = ms
           ELSE /\ called("update_batch", NoneInt, "none", <<>>)
                /\ ms' = [i \in DOMAIN ms |-> update(ms[i], predicted[i], labels[i], 0)]
    /\ UNCHANGED <<objVars, correct, total, hardVars, softVars, pc, targets, preds,
                   epoch, m, ignored>>

\* IgnoredSamples.update_batch; column0: outputs[:,0]
IgnoredSamples_update_batch ==
    /\ pc = "idle"
    /\ kind = "IgnoredSamples"
    /\ \E n \in 1..MaxBatch : \E column0 \in [0..(n - 1) -> Scores \cup {0 - 1}] :
        /\ fed + n <= MaxTotal
        /\ fed' = fed + n
        /\ IF ignored = NoneInt
           THEN /\ called("update_batch", NoneInt, "TypeError", <<>>)
                /\ ignored' = ignored
           ELSE /\ called("update_batch", NoneInt, "none", <<>>)
                /\ ignored' = ignored + Cardinality({s \in DOMAIN column0 : column0[s] = 0 - 1})
    /\ UNCHANGED <<objVars, correct, total, hardVars, softVars, pc, targets, preds,
                   epoch, m, ms>>

\* DecisionTreePrior.update_batch as one step
DecisionTreePrior_update_batch ==
    /\ pc = "idle"
    /\ kind = "DecisionTreePrior"
    /\ \E n \in BatchSizes(H) : \E b \in Batches(H, n) :
        LET predicted == traverse_tree(H, build_pred_selector(H, b.outputs, b.targets), n)
        IN  /\ total + n <= MaxTotal
            /\ total' = total + n
            /\ correct' = correct + count_equal(predicted, b.targets)
            /\ fed' = fed + n
    /\ called("update_batch", NoneInt, "none", <<>>)
    /\ UNCHANGED <<objVars, hardVars, softVars, pc, targets, preds, epoch, m, ms, ignored>>

\* DecisionTreeBayesianPrior.update_batch as one step
DecisionTreeBayesianPrior_update_batch ==
    /\ pc = "idle"
    /\ kind = "DecisionTreeBayesianPrior"
    /\ \E n \in BatchSizes(H) : \E b \in Batches(H, n) :
        LET predicted == bayes_traverse_tree(H, build_output(H, b.outputs), n)
        IN  /\ total + n <= MaxTotal
            /\ total' = total + n
            /\ correct' = correct + count_equal(predicted, b.targets)
            /\ fed' = fed + n
    /\ called("update_batch", NoneInt, "none", <<>>)
    /\ UNCHANGED <<objVars, hardVars, softVars, pc, targets, preds, epoch, m, ms, ignored>>

Next ==
    \/ start_epoch
    \/ start_train
    \/ end_train
    \/ start_test
    \/ end_test
    \/ end_epoch
    \/ Noop_update_batch
    \/ ConfusionMatrix_update_batch
    \/ ConfusionMatrixJointNodes_update_batch
    \/ IgnoredSamples_update_batch
    \/ DecisionTreePrior_update_batch
    \/ DecisionTreeBayesianPrior_update_batch

Spec == InitHooks /\ [][Next]_vars

----------------------------------------------------------------------------
(* Hard routing, one loop iteration per step *)

InitHard == \E h \in HardHierarchies : Constructed("DecisionTreePrior", h)

\* DecisionTreePrior.update_batch up to the first loop test of traverse_tree
update_batch_enter ==
    /\ pc = "idle"
    /\ kind = "DecisionTreePrior"
    /\ \E n \in BatchSizes(H) : \E b \in Batches(H, n) :
        /\ total + n <= MaxTotal
        /\ targets' = b.targets
        /\ wnid_to_pred_selector' = build_pred_selector(H, b.outputs, b.targets)
        /\ node_argmax' = all_node_argmax(H, b.outputs)
    /\ index' = 0
    /\ wnid' = get_root(H)
    /\ node' = get_root(H)
    /\ preds' = Empty
    /\ steps' = 0
    /\ pc' = "while"
    /\ UNCHANGED <<objVars, hookVars, cntVars, softVars>>

\* lines 207-218: one iteration of `while node is not None`
traverse_while ==
    /\ pc = "while"
    /\ node # None
    /\ LET next == while_body(H, wnid_to_pred_selector, index, node)
       IN  /\ wnid' = next.wnid
           /\ node' = next.node
           /\ steps' = IF next.wnid = None THEN steps ELSE steps + 1
    /\ UNCHANGED <<objVars, hookVars, cntVars, softVars, pc, targets,
                   wnid_to_pred_selector, node_argmax, index, preds>>

\* lines 219-221 and the next turn of the for loop
traverse_append ==
    /\ pc = "while"
    /\ node = None
    /\ preds' = append(preds, leaf_pred(H, wnid))
    /\ IF index + 1 < len(targets)
       THEN /\ index' = index + 1
            /\ wnid' = get_root(H)
            /\ node' = get_root(H)
            /\ steps' = 0
            /\ pc' = "while"
       ELSE /\ pc' = "done"
            /\ UNCHANGED <<index, wnid, node, steps>>
    /\ UNCHANGED <<objVars, hookVars, cntVars, softVars, targets,
                   wnid_to_pred_selector, node_argmax>>

\* lines 196-199 (283-286): the counters, then return
update_batch_return ==
    /\ pc = "done"
    /\ total' = total + len(targets)
    /\ correct' = correct + count_equal(preds, targets)
    /\ fed' = fed + len(targets)
    /\ pc' = "idle"
    /\ targets' = Empty
    /\ wnid_to_pred_selector' = Empty
    /\ node_argmax' = Empty
    /\ index' = 0
    /\ wnid' = None
    /\ node' = None
    /\ preds' = Empty
    /\ steps' = 0
    /\ outputs' = Empty
    /\ wnid_to_output' = Empty
    /\ class_probs' = Empty
    /\ position' = 0
    /\ visits' = Empty
    /\ last' = [hook |-> "update_batch", arg |-> NoneInt]
    /\ raised' = "none"
    /\ printed' = <<>>
    /\ UNCHANGED <<objVars, epoch, m, ms, ignored>>

NextHard ==
    \/ update_batch_enter
    \/ traverse_while
    \/ traverse_append
    \/ update_batch_return

SpecHard == InitHard /\ [][NextHard]_vars

\* update_batch is one synchronous call: once entered it runs to its return
SpecHardFair ==
    SpecHard /\ WF_vars(traverse_while) /\ WF_vars(traverse_append)
             /\ WF_vars(update_batch_return)

----------------------------------------------------------------------------
(* Soft routing, one node per step *)

InitSoft == \E h \in SoftHierarchies : Constructed("DecisionTreeBayesianPrior", h)

\* DecisionTreeBayesianPrior.update_batch up to the loop of traverse_tree
bayes_update_batch_enter ==
    /\ pc = "idle"
    /\ kind = "DecisionTreeBayesianPrior"
    /\ \E n \in BatchSizes(H) : \E b \in Batches(H, n) :
        /\ total + n <= MaxTotal
        /\ outputs' = b.outputs
        /\ targets' = b.targets
        /\ wnid_to_output' = build_output(H, b.outputs)
        /\ class_probs' = ones(H, n)
    /\ position' = 0
    /\ visits' = [n \in NodeWnids(H) |-> 0]
    /\ preds' = Empty
    /\ pc' = "nodes"
    /\ UNCHANGED <<objVars, hookVars, cntVars, hardVars>>

\* lines 290-295: one turn of `for node in self.nodes`
bayes_traverse_node ==
    /\ pc = "nodes"
    /\ position < len(H.nodes)
    /\ class_probs' = scale_node(H, H.nodes[position], wnid_to_output, class_probs)
    /\ visits' = [visits EXCEPT ![H.nodes[position]] = @ + 1]
    /\ position' = position + 1
    /\ UNCHANGED <<objVars, hookVars, cntVars, hardVars, pc, targets, preds,
                   outputs, wnid_to_output>>

\* lines 296-297: the argmax, and the return of traverse_tree
bayes_traverse_argmax ==
    /\ pc = "nodes"
    /\ position = len(H.nodes)
    /\ preds' = [s \in DOMAIN class_probs |-> argmax_frac(class_probs[s])]
    /\ pc' = "done"
    /\ UNCHANGED <<objVars, hookVars, cntVars, hardVars, targets,
                   outputs, wnid_to_output, class_probs, position, visits>>

NextSoft ==
    \/ bayes_update_batch_enter
    \/ bayes_traverse_node
    \/ bayes_traverse_argmax
    \/ update_batch_return

SpecSoft == InitSoft /\ [][NextSoft]_vars

----------------------------------------------------------------------------
(* Properties of the hooks (Spec) *)

\* C1: for DecisionTreePrior and DecisionTreeBayesianPrior, immediately after
\* start_test(epoch) has returned, correct = 0 and total = 0, whatever
\* update_batch calls happened before.
C1_TotalsResetAtStartTest ==
    (kind \in TreeKinds /\ last.hook = "start_test" /\ raised = "none")
        => (correct = 0 /\ total = 0)

\* the hooks that take an epoch to compare with self.epoch
CheckedHooks == {"start_train", "end_train", "start_test", "end_test", "end_epoch"}

\* C2: for every analysis class and every hook among start_train, end_train,
\* start_test, end_test and end_epoch: a call whose epoch argument differs from
\* the value last set by start_epoch fails (the claim: with an assertion error)
\* instead of performing its effect.
C2_MismatchedEpochFails ==
    (last.hook \in CheckedHooks /\ epoch \in Epochs /\ last.arg # epoch)
        => raised # "none"

----------------------------------------------------------------------------
(* Properties of hard routing (SpecHard) *)

InTraversal == pc \in {"while", "done"}

\* sample i is applicable at node n in this batch's dictionary
Applicable(n, i) ==
    /\ n \in DOMAIN wnid_to_pred_selector
    /\ wnid_to_pred_selector[n].selector[i]

\* the nodes on the path from the root to the leaf of original class c
TruePath(h, c) == {n \in NodeWnids(h) : h.wnids[c] \in get_leaves(h, n)}

\* at node n, sample i's argmax is the child that leads to the leaf of its target
PicksTrueChild(n, i) ==
    H.wnids[targets[i]] \in get_leaves(H, children(H, n)[node_argmax[n][i]])

\* the nodes reached from n by following sample i's argmax at every node
\* where the sample is applicable
RECURSIVE Visited(_, _)
Visited(n, i) ==
    {n} \cup
        IF Applicable(n, i) /\ children(H, n)[node_argmax[n][i]] \in NodeWnids(H)
        THEN Visited(children(H, n)[node_argmax[n][i]], i)
        ELSE {}

\* C3 as claimed: a sample applicable at every node of the path from the root
\* to its true leaf resolves to its target, whatever the nodes predict.
C3_ApplicablePathResolves ==
    pc = "done" =>
        \A i \in DOMAIN targets :
            (\A n \in TruePath(H, targets[i]) : Applicable(n, i))
                => preds[i] = targets[i]

\* C3 amended: a sample applicable at every node of the path from the root to
\* its true leaf, for which every node of that path predicts the child on the
\* path, resolves to its target.
C3_CorrectPathResolves ==
    pc = "done" =>
        \A i \in DOMAIN targets :
            (\A n \in TruePath(H, targets[i]) : Applicable(n, i) /\ PicksTrueChild(n, i))
                => preds[i] = targets[i]

C3_Witness ==
    /\ pc = "done"
    /\ \E i \in DOMAIN targets :
        /\ Cardinality(TruePath(H, targets[i])) >= 2
        /\ \A n \in TruePath(H, targets[i]) : Applicable(n, i) /\ PicksTrueChild(n, i)
        /\ preds[i] = targets[i]
        /\ i > 0

\* C4 as claimed: a sample that is inapplicable at any node of the hierarchy
\* (selector false there, or the node absent from the dictionary) resolves to -1.
C4_AnyInapplicableNodeUnresolved ==
    pc = "done" =>
        \A i \in DOMAIN targets :
            (\E n \in NodeWnids(H) : ~Applicable(n, i)) => preds[i] = 0 - 1

\* C4 amended: a sample that is inapplicable at a node its walk reaches
\* (selector false there, or the node absent from the dictionary) resolves to -1.
C4_ReachedInapplicableNodeUnresolved ==
    pc = "done" =>
        \A i \in DOMAIN targets :
            (\E n \in Visited(get_root(H), i) : ~Applicable(n, i)) => preds[i] = 0 - 1

C4_Witness ==
    /\ pc = "done"
    /\ \E i, j \in DOMAIN targets :
        /\ \E n \in Visited(get_root(H), i) : n \notin DOMAIN wnid_to_pred_selector
        /\ preds[i] = 0 - 1
        /\ \E n \in Visited(get_root(H), j) :
              n \in DOMAIN wnid_to_pred_selector /\ ~wnid_to_pred_selector[n].selector[j]
        /\ preds[j] = 0 - 1

\* no list access of the loop body is out of range
C5_NoIndexError ==
    (pc = "while" /\ node # None) =>
        /\ node \in NodeWnids(H)
        /\ node \in DOMAIN wnid_to_pred_selector =>
            LET entry == wnid_to_pred_selector[node]
            IN  /\ index \in DOMAIN entry.selector
                /\ entry.selector[index] =>
                    /\ index_new_of(entry.selector, index) \in DOMAIN entry.preds_sub
                    /\ entry.preds_sub[index_new_of(entry.selector, index)]
                           \in DOMAIN children(H, node)

\* the list built so far, and the list returned
C5_Output ==
    /\ pc = "while" => DOMAIN preds = 0..(index - 1)
    /\ pc = "done" => DOMAIN preds = DOMAIN targets
    /\ InTraversal => \A i \in DOMAIN preds : preds[i] \in {0 - 1} \cup DOMAIN H.classes

\* a dead end stops the walk at an identifier that maps to -1
C5_DeadEndStops ==
    (pc = "while" /\ node # None /\ ~Applicable(node, index))
        => (pc' = "while" /\ node' = None /\ index' = index /\ leaf_pred(H, wnid') = 0 - 1)

\* a walk that has stopped is answered in the next step
C5_Answered ==
    (pc = "while" /\ node = None)
        => (len(preds') = len(preds) + 1 /\ preds'[index] = leaf_pred(H, wnid))

ResolvedCorrect == {i \in DOMAIN targets : preds[i] # 0 - 1 /\ preds[i] = targets[i]}

C9_Counters == 0 <= correct /\ correct <= total /\ total = fed

C9_Update ==
    pc = "done" =>
        /\ total' = total + len(targets)
        /\ correct' = correct + Cardinality(ResolvedCorrect)
        /\ \A i \in DOMAIN targets : preds[i] = 0 - 1 => i \notin ResolvedCorrect

\* C9: each update_batch adds the batch size to total and to correct the number
\* of samples whose traversal result equals their target, never one whose result
\* is -1; so 0 <= correct <= total and total is the sum of the batch sizes.
C9_Bookkeeping == []C9_Counters /\ [][C9_Update]_vars

C9_Witness ==
    /\ pc = "done"
    /\ total > 0
    /\ correct > 0
    /\ preds[0] = 0 - 1

\* the longest path from w down to a leaf, in edges
RECURSIVE Height(_, _)
Height(h, w) ==
    IF len(h.succ[w]) = 0 THEN 0
    ELSE LET below == {Height(h, h.succ[w][i]) : i \in DOMAIN h.succ[w]}
         IN  1 + CHOOSE top \in below : \A k \in below : k <= top

\* the walk starts at the root
C10_StartsAtRoot ==
    (pc' = "while" /\ (pc # "while" \/ index' # index))
        => (node' = get_root(H) /\ wnid' = get_root(H) /\ steps' = 0)

\* the walk moves from a node to one of its children, or stops
C10_MovesToChild ==
    (pc = "while" /\ node # None) =>
        /\ pc' = "while" /\ index' = index
        /\ \/ node' = None /\ wnid' = None /\ steps' = steps
           \/ /\ wnid' \in range(children(H, node))
              /\ node' \in {wnid', None}
              /\ node' = None <=> wnid' \notin NodeWnids(H)
              /\ steps' = steps + 1

\* the transitions made and those that can still be made fit the longest path
C10_Bounded ==
    pc = "while" =>
        /\ steps <= Height(H, get_root(H))
        /\ node # None => steps + Height(H, node) <= Height(H, get_root(H))
        /\ index < len(targets)

\* C10: the walk of every sample starts at the root, moves only from a node to
\* one of its children and reaches a leaf identifier or the abort after at most
\* as many transitions as the longest root-to-leaf path; traverse_tree returns.
C10_Terminates ==
    /\ []C10_Bounded
    /\ [][C10_StartsAtRoot /\ C10_MovesToChild]_vars
    /\ (pc = "while") ~> (pc = "done")

C10_Witness ==
    /\ pc = "done"
    /\ steps = Height(H, get_root(H))
    /\ steps >= 3
    /\ len(targets) >= 2

----------------------------------------------------------------------------
(* Properties of soft routing (SpecSoft) *)

\* the (node, child) pairs whose group owns original class c
Owners(h, c) ==
    {p \in UNION {{<<n, g>> : g \in DOMAIN children(h, n)} : n \in NodeWnids(h)} :
        c \in new_to_old_classes(h, p[1])[p[2]]}

\* the local probability of child g at node n for raw scores row
LocalProb(h, n, row, g) == softmax(get_output_sub(h, n, row))[g]

RECURSIVE ProductOver(_, _, _)
ProductOver(h, row, pairs) ==
    IF pairs = {} THEN One
    ELSE LET p == CHOOSE q \in pairs : TRUE
         IN  FracMul(LocalProb(h, p[1], row, p[2]), ProductOver(h, row, pairs \ {p}))

\* the orders in which the nodes can be listed
Orders(h) ==
    {o \in [DOMAIN h.nodes -> NodeWnids(h)] : \A i, j \in DOMAIN o : o[i] = o[j] => i = j}

SameProbs(a, b) ==
    /\ DOMAIN a = DOMAIN b
    /\ \A s \in DOMAIN a :
        /\ DOMAIN a[s] = DOMAIN b[s]
        /\ \A c \in DOMAIN a[s] : FracEq(a[s][c], b[s][c])

AllVisited == pc = "done" /\ kind = "DecisionTreeBayesianPrior"

C6_Product ==
    AllVisited =>
        /\ \A n \in NodeWnids(H) : visits[n] = 1
        /\ DOMAIN class_probs = DOMAIN targets
        /\ \A s \in DOMAIN class_probs : \A c \in DOMAIN H.classes :
              FracEq(class_probs[s][c], ProductOver(H, outputs[s], Owners(H, c)))
        /\ \A o \in Orders(H) :
              SameProbs(class_probs,
                        scale_nodes(H, o, wnid_to_output, ones(H, len(targets)), 0))

\* a node leaves the entries of the classes it does not own as they are
C6_OthersUnchanged ==
    (pc = "nodes" /\ position < len(H.nodes)) =>
        \A s \in DOMAIN class_probs : \A c \in DOMAIN H.classes :
            (\A g \in DOMAIN children(H, H.nodes[position]) :
                c \notin new_to_old_classes(H, H.nodes[position])[g])
            => class_probs'[s][c] = class_probs[s][c]

\* C6: from an all-ones vector, every node is visited exactly once, so that the
\* final class_probs[s][c] is the product, over the nodes n and child groups g
\* of n that own c, of n's softmax probability of g for sample s; a node leaves
\* the classes it does not own unchanged; the order of the nodes does not matter.
C6_SoftProduct == []C6_Product /\ [][C6_OthersUnchanged]_vars

C6_Witness ==
    /\ AllVisited
    /\ len(H.nodes) >= 2
    /\ \E c \in DOMAIN H.classes : Cardinality(Owners(H, c)) = 1
    /\ \E s \in DOMAIN class_probs : \E c, d \in DOMAIN H.classes :
          FracLess(class_probs[s][c], class_probs[s][d])

\* the hierarchy is one node whose children are the original classes, in order
SingleNodeIdentity(h) ==
    /\ len(h.nodes) = 1
    /\ num_classes(h, h.nodes[0]) = len(h.classes)
    /\ \A g \in DOMAIN h.classes : new_to_old_classes(h, h.nodes[0])[g] = {g}

\* softmax over the raw scores of one sample, then the first maximal position
PlainSoftmaxArgmax(row) ==
    LET e == [c \in DOMAIN row |-> 2 ^ (2 * row[c])]
        p == [c \in DOMAIN row |-> Frac(e[c], SumOver(e, DOMAIN row))]
    IN  CHOOSE c \in DOMAIN row :
            /\ \A k \in DOMAIN row : ~FracLess(p[c], p[k])
            /\ \A k \in DOMAIN row : FracEq(p[k], p[c]) => c <= k

\* C7: on a single-node hierarchy with the identity mapping, the prediction of
\* soft routing for each sample is the plain softmax-argmax over the sample's raw
\* outputs, the first maximal index on ties.
C7_SingleNodeIsPlainArgmax ==
    (AllVisited /\ SingleNodeIdentity(H)) =>
        \A s \in DOMAIN targets : preds[s] = PlainSoftmaxArgmax(outputs[s])

C7_Witness ==
    /\ AllVisited
    /\ SingleNodeIdentity(H)
    /\ \E s \in DOMAIN targets :
        /\ preds[s] = 1
        /\ outputs[s][1] = outputs[s][2]
        /\ outputs[s][0] < outputs[s][1]

=============================================================================
